---- MODULE Spec2Model ----
(***************************************************************************)
(* Federated authentication handshake of the Ellucian support client:      *)
(* AuthSession (session store), OktaAuthenticator.authenticate (federation *)
(* bridge + IDX stepper), OktaAuthenticator.validate_session and           *)
(* EllucianClient.authenticate.  The service provider and the identity     *)
(* provider are the environment: every response is chosen from a small     *)
(* set of statuses, bodies and Set-Cookie headers.                         *)
(*                                                                         *)
(* Around it: the ellucian-support command line (login and the commands    *)
(* that consume the stored session), FlexNetClient of the download centre, *)
(* _group_releases of the upgrade rounds, and the await-change command of  *)
(* sos with get_changed_pages.  Each has its own specification.            *)
(***************************************************************************)
EXTENDS Integers, Sequences, FiniteSets, TLC

VARIABLES
    pc,                 \* position inside OktaAuthenticator.authenticate, or "idle"
    file,               \* DEFAULT_COOKIE_FILE: <<>> when missing, else <<data>>
    clientSession,      \* EllucianClient._session: <<>> (None) or <<session>>
    call,               \* the current / last EllucianClient.authenticate invocation
    client,             \* id of the httpx.Client of the current OktaAuthenticator
    openClients,        \* ids of httpx clients created and not yet closed
    jar,                \* self._client.cookies: cookie key -> value or Absent
    domOrder,           \* domains of the jar in insertion order (iteration order)
    initial_jsessionid, \* local of authenticate
    saml_url,           \* local of authenticate
    state_handle,       \* local of authenticate
    identify_data,      \* local of authenticate
    challenge_data,     \* local of authenticate
    authenticator_id,   \* local of authenticate
    success_url,        \* local of authenticate
    token_redirect,     \* local of authenticate: <<>> until set
    saml_form,          \* locals saml_response, relay_state of authenticate
    mfaCalls,           \* number of invocations of self.mfa_callback
    reqs,               \* requests sent in this handshake, with the status received
    redirects,          \* iterations of the redirect loop answered by a redirect
    lastUrl,            \* callback_resp.url
    console,            \* what this handshake printed
    error,              \* the exception authenticate raised
    session,            \* the AuthSession authenticate returned
    deviations,         \* responses so far that left the expected flow
    quota,              \* handshakes the client may run in this behaviour
    storePc,            \* position in a load / save / load sequence on the store
    stored,             \* the file as it was before that sequence
    loaded,             \* what the first load() returned
    reloaded,           \* what the load() after save() returned
    flex_client,        \* FlexNetClient._client: 0 (None) or the id of an httpx client
    flex_authenticated, \* FlexNetClient._authenticated
    flexOpen,           \* ids of the httpx clients FlexNetClient created and not closed
    flexCreated,        \* number of httpx clients FlexNetClient created
    flexAuths,          \* authentications that succeeded since the last close()
    flexLast,           \* the last operation and how it ended
    releases,           \* the argument of _group_releases
    modules,            \* what _group_releases returned
    groupPc,            \* "called" until _group_releases has returned
    clock,              \* time.time() in milliseconds
    updated_at,         \* :block/updated-at of every page of the graph
    awaitPc,            \* position of the await-change command, or "idle"
    check_from,         \* local of await_change
    pages,              \* local of await_change: what get_changed_pages returned
    timestamp,          \* "timestamp" of the last output, the next call's --since
    reported,           \* the pages that the outputs of the chain listed so far
    started,            \* <<>>, or <<t>> with t the first call's check_from
    cli                 \* the invocation of the ellucian-support command line

vars == <<pc, file, clientSession, call, client, openClients, jar, domOrder,
          initial_jsessionid, saml_url, state_handle, identify_data,
          challenge_data, authenticator_id, success_url, token_redirect,
          saml_form, mfaCalls, reqs, redirects, lastUrl, console, error, session, deviations,
          quota, storePc, stored, loaded, reloaded,
          flex_client, flex_authenticated, flexOpen, flexCreated, flexAuths, flexLast,
          releases, modules, groupPc,
          clock, updated_at, awaitPc, check_from, pages, timestamp, reported, started,
          cli>>

\* await-change and the graph it watches
awaitVars == <<clock, updated_at, awaitPc, check_from, pages, timestamp, reported, started>>

\* _group_releases
groupVars == <<releases, modules, groupPc>>

\* FlexNetClient
flexVars == <<flex_client, flex_authenticated, flexOpen, flexCreated, flexAuths, flexLast>>

\* the session store's round trip
storeVars == <<storePc, stored, loaded, reloaded>>

\* what the handshake and EllucianClient.authenticate leave alone
others == <<quota, storeVars, flexVars, groupVars, awaitVars, cli>>

hvars == <<jar, domOrder, initial_jsessionid, saml_url, state_handle,
           identify_data, challenge_data, authenticator_id, success_url,
           token_redirect, saml_form, mfaCalls, reqs, redirects, lastUrl, console, error, session>>

\* the handshake's and the client's variables but the file
clientVars == <<pc, clientSession, call, client, openClients, hvars, deviations, quota>>

(***************************************************************************)
(* Bounds of the model.                                                    *)
(***************************************************************************)
MaxHandshakes == 1    \* handshakes (OktaAuthenticator instances) per behaviour
MaxClients == 2       \* the same, where authenticate is called again and again
MaxRedirects == 1     \* redirects that the service provider answers with another redirect
MaxTime == 3          \* milliseconds that pass while await-change calls are chained
MaxReleases == 3      \* releases in the list given to _group_releases
MaxFlexClients == 3   \* httpx clients that one FlexNetClient creates
MaxDeviations == 1    \* responses off the expected flow that a handshake survives
                      \* (an error status the code does not test, an unexpected
                      \* Set-Cookie header, page, redirect or missing stateHandle),
                      \* counted over the behaviour

(***************************************************************************)
(* Values.                                                                 *)
(***************************************************************************)
Absent == "ABSENT"    \* a key, header or cookie that is not there
PyNone == "None"      \* Python None, also what JSON null parses to
Expire == "EXPIRE"    \* Set-Cookie with Max-Age=0

\* variant: only None counts as false
Falsy_NoneOnly(v) == v = PyNone

\* "if not v" for a string or None
Falsy(v) == v \in {PyNone, ""}

\* dict.get(key, default): the default only when the key is missing
Get(v, default) == IF v = Absent THEN default ELSE v

SP == "service-now.com"
IDP == "sso.ellucian.com"
ELSEWHERE == "other-host"

JSESSIONID == "JSESSIONID"
GSS == "glide_session_store"

CookieNames == {JSESSIONID, GSS}
CookieKeys == {<<JSESSIONID, SP>>, <<GSS, SP>>, <<JSESSIONID, IDP>>}

EmptyJar == [k \in CookieKeys |-> Absent]

(***************************************************************************)
(* AuthSession: the session store.                                         *)
(***************************************************************************)
NoCookies == [n \in CookieNames |-> Absent]

AuthSession(cookies, gss) ==
    [cookies |-> cookies, user_email |-> "", user_id |-> "",
     glide_session_store |-> gss]

\* variant: the distinguished cookie is looked up in the cookie map
is_authenticated_FromCookies(s) == s.cookies[GSS] \notin {Absent, ""}

is_authenticated(s) == s.glide_session_store # ""

\* variant: only the cookies and the distinguished field are written
SaveData_CookiesOnly(s) ==
    [cookies |-> s.cookies, glide_session_store |-> s.glide_session_store]

\* the dict that save() serialises into the file
SaveData(s) ==
    [cookies |-> s.cookies, user_email |-> s.user_email,
     user_id |-> s.user_id, glide_session_store |-> s.glide_session_store]

\* What the file may hold besides a saved session.  A content is a record:
\* text that json.loads rejects (field text), a JSON value that is not an
\* object (field json), or a JSON object, whose keys are the record's fields.
EmptyFile == [text |-> ""]
MalformedFile == [text |-> "{"]
ArrayFile == [json |-> "[]"]

\* data.get(key, default) on the object of the file
Field(d, key, default) == IF key \in DOMAIN d THEN d[key] ELSE default

\* load() raises: json.loads gave a value without .get (AttributeError is
\* not among the exceptions that load catches)
LoadRaises(f) == f # <<>> /\ "json" \in DOMAIN f[1]

\* load(): None when the file is missing or is not JSON, else the session
\* made of the keys of its object, with the defaults for the missing ones
Load(f) ==
    IF f = <<>> \/ LoadRaises(f) THEN <<>>
    ELSE IF "text" \in DOMAIN f[1] THEN <<>>
    ELSE <<[cookies |-> Field(f[1], "cookies", NoCookies),
            user_email |-> Field(f[1], "user_email", ""),
            user_id |-> Field(f[1], "user_id", ""),
            glide_session_store |-> Field(f[1], "glide_session_store", "")]>>

(***************************************************************************)
(* The cookie jar of the handshake's httpx client.                         *)
(***************************************************************************)
NoSet == <<>>

\* a response's Set-Cookie header stored into the jar; Max-Age=0 removes the
\* cookie, a new domain is appended to the jar's iteration order
JarAfter(j, setc) ==
    IF setc = NoSet THEN j
    ELSE [j EXCEPT ![setc[1]] = IF setc[2] = Expire THEN Absent ELSE setc[2]]

OrderAfter(ord, setc) ==
    IF setc = NoSet \/ setc[2] = Expire THEN ord
    ELSE IF \E i \in 1..Len(ord) : ord[i] = setc[1][2] THEN ord
    ELSE Append(ord, setc[1][2])

\* the cookies of the jar in iteration order: domain by domain
RECURSIVE JarCookies(_, _)
JarCookies(j, ord) ==
    IF ord = <<>> THEN <<>>
    ELSE LET d == Head(ord)
             js == IF <<JSESSIONID, d>> \in CookieKeys /\ j[<<JSESSIONID, d>>] # Absent
                   THEN <<[name |-> JSESSIONID, domain |-> d, value |-> j[<<JSESSIONID, d>>]]>>
                   ELSE <<>>
             gs == IF <<GSS, d>> \in CookieKeys /\ j[<<GSS, d>>] # Absent
                   THEN <<[name |-> GSS, domain |-> d, value |-> j[<<GSS, d>>]]>>
                   ELSE <<>>
         IN  js \o gs \o JarCookies(j, Tail(ord))

\* the JSESSIONID of the service provider's domain, as the tracking loops read it
SpJsessionid(j) ==
    IF j[<<JSESSIONID, SP>>] = Absent THEN PyNone ELSE j[<<JSESSIONID, SP>>]

\* "Build session from cookies": later cookies of the same name overwrite
RECURSIVE BuildSession(_, _)
BuildSession(cs, s) ==
    IF cs = <<>> THEN s
    ELSE LET c == Head(cs)
             s1 == [s EXCEPT !.cookies[c.name] = c.value]
             s2 == IF c.name = GSS
                   THEN [s1 EXCEPT !.glide_session_store = c.value]
                   ELSE s1
         IN  BuildSession(Tail(cs), s2)

\* variant: only the distinguished cookie is reported
CookieNamesPresent_SessionOnly(j, ord) ==
    {n \in {JarCookies(j, ord)[i].name : i \in 1..Len(JarCookies(j, ord))} : n = GSS}

\* line 380: the names of the cookies in the jar
CookieNamesPresent(j, ord) ==
    {JarCookies(j, ord)[i].name : i \in 1..Len(JarCookies(j, ord))}

(***************************************************************************)
(* Token extraction from HTML.  A page is described by the patterns the    *)
(* regular expressions look for.                                           *)
(***************************************************************************)
Url(host, path) == [host |-> host, path |-> path]

TARGET_URL == Url(SP, "/customer_center?id=customer_center_home")
SSO_URL == Url(SP, "/login_with_sso.do")
NAV_TO_URL == Url(SP, "/nav_to.do")
AUTH_REDIRECT_URL == Url(SP, "/auth_redirect.do")

\* app: an absolute https://sso.ellucian.com/app/... URL occurs in the page
\* winloc: a window.location assignment, to an absolute or a relative URL
\* bare: the text sso.ellucian.com... occurs (URL-encoded or without scheme)
SsoPage(app, winloc, bare) == [app |-> app, winloc |-> winloc, bare |-> bare]

\* variant: falls back to the identity provider's application URL
extract_saml_redirect_Default(html) ==
    IF html.app THEN <<Url(IDP, "/app/saml")>>
    ELSE IF html.winloc = "http" THEN <<Url(ELSEWHERE, "/window-location")>>
    ELSE <<Url(IDP, "/unquoted")>>

\* _extract_saml_redirect: <<>> is None
extract_saml_redirect(html) ==
    IF html.app THEN <<Url(IDP, "/app/saml")>>
    ELSE IF html.winloc = "http" THEN <<Url(ELSEWHERE, "/window-location")>>
    ELSE IF html.bare THEN <<Url(IDP, "/unquoted")>>
    ELSE <<>>

\* the Okta login page: where a stateToken occurs, if anywhere.  The token
\* is a sequence of characters, "\\x2D" being an escaped dash.
RawToken == <<"0", "\\x2D", "a">>

RECURSIVE unicode_escape(_)
unicode_escape(t) ==
    IF t = <<>> THEN <<>>
    ELSE <<IF Head(t) = "\\x2D" THEN "-" ELSE Head(t)>> \o unicode_escape(Tail(t))

\* _extract_state_token: <<>> is None
extract_state_token(html) ==
    IF html \in {"json", "url"} THEN <<unicode_escape(RawToken)>> ELSE <<>>

\* the auto-submitting form: which hidden inputs it has.  Values are
\* HTML-entity-encoded; "&#x2B;" is an encoded plus sign.
RECURSIVE html_unescape(_)
html_unescape(t) ==
    IF t = <<>> THEN <<>>
    ELSE <<IF Head(t) = "&#x2B;" THEN "+" ELSE Head(t)>> \o html_unescape(Tail(t))

\* _extract_saml_response: a pair of options
extract_saml_response(html) ==
    [saml |-> IF html.saml THEN <<html_unescape(<<"P", "&#x2B;", "Q">>)>> ELSE <<>>,
     relay |-> IF html.relay THEN <<html_unescape(<<"&#x2B;", "r">>)>> ELSE <<>>]

(***************************************************************************)
(* Bodies of the identity provider's IDX responses.                        *)
(***************************************************************************)
TOTP_LABEL == "Okta Verify"
TOTP_KEY == "okta_verify"

\* rem_kind: is the key "remediation" missing, null or an object; options:
\* the options of remediation select-authenticator-authenticate, each with
\* its label and the value of its form field "id"; authenticators: the flat
\* list authenticators.value; success: missing, null, an object without
\* href ("{}") or its href; stateHandle: missing, null, "" or a handle
IdentifyBody(rk, opts, auths, su, sh) ==
    [rem_kind |-> rk, options |-> opts, authenticators |-> auths,
     success |-> su, stateHandle |-> sh]

NoBody == IdentifyBody("absent", <<>>, <<>>, Absent, Absent)

TotpOption == [label |-> TOTP_LABEL, id |-> "a1"]
OtherOption == [label |-> "Google Authenticator", id |-> "a9"]
TotpEntry == [key |-> TOTP_KEY, id |-> "a2"]

IdentifyBodies ==
    { IdentifyBody("absent", <<>>, <<>>, su, Absent) :
        su \in {Absent, PyNone, "{}", "hrefI"} }
    \cup
    { IdentifyBody("object", <<OtherOption, TotpOption>>, <<>>, Absent, "h2"),
      IdentifyBody("object", <<OtherOption, TotpOption>>, <<TotpEntry>>, "hrefI", Absent),
      IdentifyBody("object", <<OtherOption>>, <<TotpEntry>>, Absent, "h2"),
      IdentifyBody("object", <<OtherOption, TotpOption>>, <<>>, Absent, PyNone),
      IdentifyBody("object", <<OtherOption>>, <<TotpEntry>>, Absent, ""),
      IdentifyBody("object", <<OtherOption>>, <<>>, Absent, Absent),
      IdentifyBody("null", <<>>, <<>>, Absent, Absent) }

\* a success object's href, None when there is none (data.get("success", {}).get("href"))
SuccessHref(su) == IF su \in {Absent, "{}"} THEN PyNone ELSE su

\* lines 214-229: the remediation-tree search for the TOTP label
RECURSIVE TreeSearch(_)
TreeSearch(opts) ==
    IF opts = <<>> THEN PyNone
    ELSE IF Head(opts).label = TOTP_LABEL THEN Get(Head(opts).id, PyNone)
    ELSE TreeSearch(Tail(opts))

\* lines 231-237: the flat-list fallback
RECURSIVE ListSearch(_)
ListSearch(auths) ==
    IF auths = <<>> THEN PyNone
    ELSE IF Head(auths).key = TOTP_KEY THEN Get(Head(auths).id, PyNone)
    ELSE ListSearch(Tail(auths))

\* variant: without the flat-list fallback
FindAuthenticator_TreeOnly(body) == TreeSearch(body.options)

\* lines 214-237: the tree search, else the fallback
FindAuthenticator(body) ==
    IF ~Falsy(TreeSearch(body.options)) THEN TreeSearch(body.options)
    ELSE ListSearch(body.authenticators)

(***************************************************************************)
(* What the servers may answer at each request.                            *)
(***************************************************************************)
\* the Set-Cookie header expected of a step: the first page sets the
\* service provider's JSESSIONID, the Okta page the identity provider's,
\* the customer_center page the glide_session_store
NominalSetCookie(step, url) ==
    CASE step = "target_get" -> <<<<JSESSIONID, SP>>, "j1">>
      [] step = "okta_get" /\ url.host = IDP -> <<<<JSESSIONID, IDP>>, "k1">>
      [] step \in {"follow", "final_get"} /\ url = TARGET_URL -> <<<<GSS, SP>>, "g1">>
      [] OTHER -> NoSet

SetCookieOptions(step, url) ==
    {NominalSetCookie(step, url)} \cup
    CASE step = "target_get" -> {NoSet}
      [] step \in {"sso_get", "redirect_get"} -> {<<<<JSESSIONID, SP>>, "j2">>}
      [] step = "okta_get" -> {NoSet}
      [] step = "saml_post" -> {<<<<JSESSIONID, SP>>, Expire>>, <<<<JSESSIONID, SP>>, "j2">>}
      [] step \in {"follow", "final_get"} /\ url = TARGET_URL ->
            {NoSet, <<<<GSS, SP>>, "">>}
      [] OTHER -> {}

\* is a response off the expected flow although the handshake goes on
OffNominal(step, url, st, setc) ==
    st >= 400 \/ setc # NominalSetCookie(step, url)

Cost(off) == IF off THEN 1 ELSE 0

\* the body of a response that the handshake does not read
NoPage == SsoPage(FALSE, "none", FALSE)

SsoPages ==
    {SsoPage(FALSE, "none", FALSE), SsoPage(TRUE, "none", TRUE),
     SsoPage(FALSE, "http", FALSE), SsoPage(FALSE, "relative", TRUE)}

\* a page that names the identity provider in an unexpected way
OddPage(html) == html \in {SsoPage(FALSE, "http", FALSE), SsoPage(FALSE, "relative", TRUE)}

OktaPages == {"none", "json", "url"}

TokenPages == {[saml |-> FALSE, relay |-> TRUE], [saml |-> TRUE, relay |-> TRUE]}

Locations == {TARGET_URL, Url(SP, "/customer_center?id=other"), Url(SP, "/navpage.do")}

\* "customer_center" in str(url)
HasCustomerCenter(u) ==
    u \in {TARGET_URL, Url(SP, "/customer_center?id=other")}

(***************************************************************************)
(* State after construction.                                               *)
(***************************************************************************)
NoError == [type |-> "", msg |-> "", cookies |-> {}]
NoCall == [force |-> FALSE, input |-> <<>>, exc |-> "", saved |-> <<>>,
           header |-> Absent, probes |-> 0, probe |-> <<>>, valid |-> <<>>,
           reused |-> FALSE, started |-> FALSE]
NoConsole == [warnings |-> {}, pre_saml |-> <<>>, cookies |-> <<>>]

\* a session persisted by an earlier run of the tool
OldSession ==
    AuthSession([n \in CookieNames |-> IF n = GSS THEN "g0" ELSE "j0"], "g0")

\* files that no run of the tool wrote; the last two are JSON objects that
\* lack keys of a saved session: only the cookie map, only the distinguished
\* field
OddFiles ==
    {EmptyFile, MalformedFile, ArrayFile,
     [cookies |-> OldSession.cookies], [glide_session_store |-> "g0"]}

HandshakeInit ==
    /\ jar = EmptyJar
    /\ domOrder = <<>>
    /\ initial_jsessionid = PyNone
    /\ saml_url = <<>>
    /\ state_handle = PyNone
    /\ identify_data = NoBody
    /\ challenge_data = [success |-> Absent]
    /\ authenticator_id = PyNone
    /\ success_url = PyNone
    /\ token_redirect = <<>>
    /\ saml_form = [saml |-> <<>>, relay |-> <<>>]
    /\ mfaCalls = 0
    /\ reqs = <<>>
    /\ redirects = 0
    /\ lastUrl = Url("", "")
    /\ console = NoConsole
    /\ error = NoError
    /\ session = <<>>

\* no load / save / load sequence is under way
StoreIdle ==
    /\ storePc = "idle"
    /\ stored = <<>>
    /\ loaded = <<>>
    /\ reloaded = <<>>

\* download.py lines 73-74: a FlexNetClient as __init__ leaves it
FlexNew ==
    /\ flex_client = 0
    /\ flex_authenticated = FALSE
    /\ flexOpen = {}
    /\ flexCreated = 0
    /\ flexAuths = 0
    /\ flexLast = [op |-> "__init__", outcome |-> "returned"]

\* no grouping is asked for
GroupIdle ==
    /\ releases = <<>>
    /\ modules = <<>>
    /\ groupPc = "idle"

PageNames == {"p1", "p2"}

\* nothing is waiting for a change; the pages were last updated before
AwaitIdle ==
    /\ clock = 1
    /\ updated_at = [p \in PageNames |-> 0]
    /\ awaitPc = "idle"
    /\ check_from = 0
    /\ pages = {}
    /\ timestamp = 0
    /\ reported = {}
    /\ started = <<>>

\* no command was given yet: cmd the command, force its --force, stage
\* where it is, exit its exit status (-1 while it runs), out what it printed
\* last, raised and reason the exception it caught, mfa how the
\* challenge/answer call of its handshake ended, prompts the MFA prompts
\* shown, checked the session it loaded with the validator's header, requests
\* the consumer requests it sent
NoCommand ==
    [cmd |-> "", force |-> FALSE, stage |-> "shell", exit |-> -1, out |-> "",
     raised |-> "", reason |-> "", mfa |-> "none", prompts |-> 0,
     checked |-> <<>>, requests |-> <<>>]

\* nothing but the handshake is going on
Aside ==
    /\ StoreIdle
    /\ FlexNew
    /\ GroupIdle
    /\ AwaitIdle
    /\ cli = NoCommand

\* no EllucianClient is at work and there is no stored session
ClientIdle ==
    /\ quota = 0
    /\ pc = "idle"
    /\ file = <<>>
    /\ clientSession = <<>>
    /\ call = NoCall
    /\ client = 0
    /\ openClients = {}
    /\ deviations = 0
    /\ HandshakeInit

InitWith(q) ==
    /\ quota = q
    /\ Aside
    /\ pc = "idle"
    /\ file \in {<<>>, <<SaveData(OldSession)>>} \cup {<<f>> : f \in OddFiles}
    /\ clientSession = <<>>
    /\ call = NoCall
    /\ client = 0
    /\ openClients = {}
    /\ deviations = IF file # <<>> /\ file[1] \in OddFiles THEN MaxDeviations ELSE 0
    /\ HandshakeInit

Init == InitWith(MaxHandshakes)


(***************************************************************************)
(* Session validator and the client's entry point.                         *)
(***************************************************************************)
\* validate_session: does it send its probe, and what it returns for the
\* x-is-logged-in header of the answer
ValidatorProbes(s) == is_authenticated(s)

\* lines 402-411: the probe, sent through a client of its own that holds
\* the cookies of the session
ValidatorRequest(s) ==
    [url |-> TARGET_URL, follow_redirects |-> FALSE, cookies |-> s.cookies]

\* what the service provider may put into x-is-logged-in
LoggedInHeaders == {Absent, "true", "false", "True"}

\* variant: the header is compared without regard to case
validate_session_AnyCase(s, header) ==
    IF ~is_authenticated(s) THEN FALSE
    ELSE Get(header, "false") \in {"true", "True"}

validate_session(s, header) ==
    IF ~is_authenticated(s) THEN FALSE
    ELSE Get(header, "false") = "true"

\* variant: a saved session is never used
ReusesSaved_Never(force, saved, header) == FALSE

\* client.py lines 97-102: is the saved session used instead of a handshake
ReusesSaved(force, saved, header) ==
    ~force /\ saved # <<>> /\ validate_session(saved[1], header)

\* EllucianClient.authenticate(force) up to the start of the handshake
ClientAuthenticate(force) ==
    /\ pc = "idle"
    /\ \E header \in LoggedInHeaders :
        LET saved == IF force THEN <<>> ELSE Load(file)
            raises == ~force /\ LoadRaises(file)
            probes == IF saved # <<>> /\ ValidatorProbes(saved[1]) THEN 1 ELSE 0
            reuse == ReusesSaved(force, saved, header)
        IN  /\ call' = [force |-> force,
                        input |-> IF force THEN <<>> ELSE <<file>>,
                        exc |-> IF raises THEN "AttributeError" ELSE "",
                        saved |-> saved,
                        header |-> IF probes = 1 THEN header ELSE Absent,
                        probes |-> probes,
                        probe |-> IF probes = 1 THEN <<ValidatorRequest(saved[1])>>
                                  ELSE <<>>,
                        valid |-> IF saved # <<>>
                                  THEN <<validate_session(saved[1], header)>>
                                  ELSE <<>>,
                        reused |-> reuse,
                        started |-> ~reuse /\ ~raises]
            /\ LET off == probes = 1 /\ header \notin {"true", "false"}
               IN  /\ deviations + Cost(off) <= MaxDeviations
                   /\ deviations' = deviations + Cost(off)
            /\ IF raises
               THEN UNCHANGED <<pc, client, openClients, clientSession>>
               ELSE IF reuse
               THEN /\ clientSession' = saved
                    /\ UNCHANGED <<pc, client, openClients>>
               ELSE /\ client < quota
                    /\ client' = client + 1
                    /\ openClients' = openClients \cup {client + 1}
                    /\ pc' = "target_get"
                    /\ UNCHANGED clientSession
    /\ UNCHANGED <<file, hvars>>
    /\ UNCHANGED others

\* AuthSession.clear(), the logout command
Clear ==
    /\ pc = "idle"
    /\ file' = <<>>
    /\ UNCHANGED <<pc, clientSession, call, client, openClients, hvars, deviations>>
    /\ UNCHANGED others

\* variant: the client is closed only after a successful handshake
ExitAuthenticate_NoCloseOnError ==
    /\ pc \in {"returned", "raised"}
    /\ clientSession' = IF pc = "returned" THEN session ELSE clientSession
    /\ openClients' = IF pc = "returned" THEN openClients \ {client} ELSE openClients
    /\ pc' = "idle"
    /\ jar' = EmptyJar
    /\ domOrder' = <<>>
    /\ initial_jsessionid' = PyNone
    /\ saml_url' = <<>>
    /\ state_handle' = PyNone
    /\ identify_data' = NoBody
    /\ challenge_data' = [success |-> Absent]
    /\ authenticator_id' = PyNone
    /\ success_url' = PyNone
    /\ token_redirect' = <<>>
    /\ saml_form' = [saml |-> <<>>, relay |-> <<>>]
    /\ mfaCalls' = 0
    /\ reqs' = <<>>
    /\ redirects' = 0
    /\ lastUrl' = Url("", "")
    /\ console' = NoConsole
    /\ error' = NoError
    /\ session' = <<>>
    /\ UNCHANGED <<file, call, client, deviations>>
    /\ UNCHANGED others

\* client.py lines 107-119: the with block ends, the authenticator's client
\* is closed, the session (if any) becomes the client's session
ExitAuthenticate ==
    /\ pc \in {"returned", "raised"}
    /\ clientSession' = IF pc = "returned" THEN session ELSE clientSession
    /\ openClients' = openClients \ {client}
    /\ pc' = "idle"
    /\ jar' = EmptyJar
    /\ domOrder' = <<>>
    /\ initial_jsessionid' = PyNone
    /\ saml_url' = <<>>
    /\ state_handle' = PyNone
    /\ identify_data' = NoBody
    /\ challenge_data' = [success |-> Absent]
    /\ authenticator_id' = PyNone
    /\ success_url' = PyNone
    /\ token_redirect' = <<>>
    /\ saml_form' = [saml |-> <<>>, relay |-> <<>>]
    /\ mfaCalls' = 0
    /\ reqs' = <<>>
    /\ redirects' = 0
    /\ lastUrl' = Url("", "")
    /\ console' = NoConsole
    /\ error' = NoError
    /\ session' = <<>>
    /\ UNCHANGED <<file, call, client, deviations>>
    /\ UNCHANGED others

(***************************************************************************)
(* OktaAuthenticator.authenticate, one action per request.                 *)
(***************************************************************************)
\* variant: the SAML assertion is posted through a client of its own
RequestClient_Fresh(step) == IF step = "saml_post" THEN client + 1 ELSE client

\* the httpx client a request of the handshake goes through: self._client
RequestClient(step) == client

\* one request and its response: the request is logged with the status and
\* the Set-Cookie header of the answer, which the client stores in its jar
\* (an error status comes with the expected header)
Exchange(step, url, handle, payload, st, setc, page, off) ==
    /\ st >= 400 => setc = NominalSetCookie(step, url)
    /\ deviations + Cost(off) <= MaxDeviations
    /\ deviations' = deviations + Cost(off)
    /\ reqs' = Append(reqs, [step |-> step, url |-> url, handle |-> handle,
                             payload |-> payload, client |-> RequestClient(step),
                             status |-> st, setc |-> setc, page |-> page])
    /\ jar' = JarAfter(IF RequestClient(step) = client THEN jar ELSE EmptyJar, setc)
    /\ domOrder' = OrderAfter(domOrder, setc)

Raise(type, msg) ==
    /\ pc' = "raised"
    /\ error' = [type |-> type, msg |-> msg, cookies |-> {}]

Goto(p) ==
    /\ pc' = p
    /\ error' = error

\* lines 133-138 and 147-152: the rotation warning after a request
Warned(j, where) ==
    IF /\ j[<<JSESSIONID, SP>>] # Absent
       /\ ~Falsy(initial_jsessionid)
       /\ j[<<JSESSIONID, SP>>] # initial_jsessionid
    THEN [console EXCEPT !.warnings = @ \cup {where}]
    ELSE console

\* lines 154-157: the identity provider's URL is extracted, or the handshake fails
ToOkta(html) ==
    /\ saml_url' = extract_saml_redirect(html)
    /\ IF extract_saml_redirect(html) = <<>>
       THEN Raise("AuthenticationError", "Could not find SAML redirect URL")
       ELSE Goto("okta_get")

\* lines 112-123
GetTargetPage ==
    /\ pc = "target_get"
    /\ \E st \in ({200, 500}), setc \in SetCookieOptions("target_get", TARGET_URL) :
        /\ Exchange("target_get", TARGET_URL, Absent, <<>>, st, setc, NoPage,
                    OffNominal("target_get", TARGET_URL, st, setc))
        /\ initial_jsessionid' = SpJsessionid(jar')
    /\ Goto("sso_get")
    /\ UNCHANGED <<file, clientSession, call, client, openClients, saml_url,
                   state_handle, identify_data, challenge_data, authenticator_id,
                   success_url, token_redirect, saml_form, mfaCalls, redirects, lastUrl, console,
                   session>>
    /\ UNCHANGED others

\* lines 125-157
GetSso ==
    /\ pc = "sso_get"
    /\ \E st \in ({200, 302, 500}), setc \in SetCookieOptions("sso_get", SSO_URL),
          html \in SsoPages :
        /\ Exchange("sso_get", SSO_URL, Absent, <<>>, st, setc,
                    IF st = 302 THEN NoPage ELSE html,
                    OffNominal("sso_get", SSO_URL, st, setc) \/ st # 302)
        /\ console' = Warned(jar', "login_with_sso.do")
        /\ IF st = 302
           THEN Goto("redirect_get") /\ UNCHANGED saml_url
           ELSE ToOkta(html)
    /\ UNCHANGED <<file, clientSession, call, client, openClients,
                   initial_jsessionid, state_handle, identify_data, challenge_data,
                   authenticator_id, success_url, token_redirect, saml_form, mfaCalls, redirects,
                   lastUrl, session>>
    /\ UNCHANGED others

\* lines 140-157
GetAuthRedirect ==
    /\ pc = "redirect_get"
    /\ \E st \in ({200, 500}), setc \in SetCookieOptions("redirect_get", AUTH_REDIRECT_URL),
          html \in SsoPages :
        /\ Exchange("redirect_get", AUTH_REDIRECT_URL, Absent, <<>>, st, setc, html,
                    OffNominal("redirect_get", AUTH_REDIRECT_URL, st, setc) \/ OddPage(html))
        /\ console' = Warned(jar', "auth_redirect.do")
        /\ ToOkta(html)
    /\ UNCHANGED <<file, clientSession, call, client, openClients,
                   initial_jsessionid, state_handle, identify_data, challenge_data,
                   authenticator_id, success_url, token_redirect, saml_form, mfaCalls, redirects,
                   lastUrl, session>>
    /\ UNCHANGED others

\* lines 159-166
GetOktaPage ==
    /\ pc = "okta_get"
    /\ \E st \in ({200, 500}), html \in OktaPages,
          setc \in SetCookieOptions("okta_get", saml_url[1]) :
        /\ Exchange("okta_get", saml_url[1], Absent, <<>>, st, setc, NoPage,
                    extract_state_token(html) # <<>>
                        /\ OffNominal("okta_get", saml_url[1], st, setc))
        /\ IF extract_state_token(html) = <<>>
           THEN Raise("AuthenticationError", "Could not extract Okta state token")
           ELSE Goto("introspect")
    /\ UNCHANGED <<file, clientSession, call, client, openClients,
                   initial_jsessionid, saml_url, state_handle, identify_data,
                   challenge_data, authenticator_id, success_url, token_redirect, saml_form,
                   mfaCalls, redirects, lastUrl, console, session>>
    /\ UNCHANGED others

\* the body of an IDX answer, as far as the log keeps it: its stateHandle
IdxBody(sh) == [stateHandle |-> sh]

\* variant: the status of an IDX answer is not looked at
IdxFailed_Never(st) == FALSE

\* lines 175, 199 and 273: an IDX call failed
IdxFailed(st) == st # 200

\* variant: the second factor is always asked for
MfaRequired_Always(body) == TRUE

\* line 209: "remediation" in identify_data
MfaRequired(body) == body.rem_kind # "absent"

\* lines 168-185
PostIntrospect ==
    /\ pc = "introspect"
    /\ \E st \in {200, 401}, sh \in {Absent, PyNone, "", "h1"} :
        /\ Exchange("introspect", Url(IDP, "/idp/idx/introspect"), Absent,
                    unicode_escape(RawToken), st, NoSet, IdxBody(sh), FALSE)
        /\ IF IdxFailed(st)
           THEN Raise("AuthenticationError", "Introspect failed") /\ UNCHANGED state_handle
           ELSE /\ state_handle' = Get(sh, "")
                /\ IF Falsy(Get(sh, ""))
                   THEN Raise("AuthenticationError",
                              "Could not get stateHandle from introspect")
                   ELSE Goto("identify")
    /\ UNCHANGED <<file, clientSession, call, client, openClients,
                   initial_jsessionid, saml_url, identify_data, challenge_data,
                   authenticator_id, success_url, token_redirect, saml_form, mfaCalls, redirects,
                   lastUrl, console, session>>
    /\ UNCHANGED others

\* variant: without a success URL the token URL is built from the stateHandle
TokenRedirect_OrHandle(url, handle) ==
    IF ~Falsy(url) THEN <<url>> ELSE <<"/login/token/redirect?stateToken=" \o handle>>

\* lines 289-293: the URL to fetch for the SAML assertion, <<>> when the
\* handshake has to fail
TokenRedirect(url, handle) == IF ~Falsy(url) THEN <<url>> ELSE <<>>

ToToken(url, handle) ==
    /\ success_url' = url
    /\ token_redirect' = TokenRedirect(url, handle)
    /\ IF TokenRedirect(url, handle) # <<>>
       THEN Goto("token_get")
       ELSE Raise("AuthenticationError", "No success URL in authentication response")

\* lines 187-237 and 282-293
PostIdentify ==
    /\ pc = "identify"
    /\ \E st \in {200, 401}, body \in IdentifyBodies :
        /\ Exchange("identify", Url(IDP, "/idp/idx/identify"), state_handle,
                    <<"identifier", "passcode">>, st, NoSet, IdxBody(body.stateHandle),
                    body.stateHandle \in {PyNone, ""})
        /\ IF IdxFailed(st)
           THEN /\ Raise("AuthenticationError", "Login failed")
                /\ UNCHANGED <<identify_data, state_handle, authenticator_id, success_url,
                             token_redirect>>
           ELSE /\ identify_data' = body
                /\ state_handle' = Get(body.stateHandle, state_handle)
                /\ IF MfaRequired(body) /\ body.rem_kind = "null"
                   THEN /\ Raise("AttributeError", "'NoneType' object has no attribute 'get'")
                        /\ UNCHANGED <<authenticator_id, success_url, token_redirect>>
                   ELSE IF MfaRequired(body)
                   THEN /\ authenticator_id' = FindAuthenticator(body)
                        /\ Goto(IF ~Falsy(FindAuthenticator(body)) THEN "select" ELSE "mfa")
                        /\ UNCHANGED <<success_url, token_redirect>>
                   ELSE /\ UNCHANGED authenticator_id
                        /\ IF body.success = PyNone
                           THEN /\ Raise("AttributeError",
                                         "'NoneType' object has no attribute 'get'")
                                /\ UNCHANGED <<success_url, token_redirect>>
                           ELSE ToToken(SuccessHref(body.success),
                                        Get(body.stateHandle, state_handle))
    /\ UNCHANGED <<file, clientSession, call, client, openClients,
                   initial_jsessionid, saml_url, challenge_data, saml_form, mfaCalls,
                   redirects, lastUrl, console, session>>
    /\ UNCHANGED others

\* variant: the handle of the answer is adopted whatever its status
SelectedHandle_AnyStatus(st, sh, handle) == Get(sh, handle)

\* lines 253-259: the handle after the selection call
SelectedHandle(st, sh, handle) == IF st = 200 THEN Get(sh, handle) ELSE handle

\* lines 239-259
PostSelect ==
    /\ pc = "select"
    /\ \E st \in ({200, 401}) :
       \E sh \in (IF st = 200 THEN {Absent, PyNone, "", "h3"} ELSE {"h3"}) :
        /\ Exchange("select", Url(IDP, "/idp/idx/challenge"), state_handle,
                    <<authenticator_id, "totp">>, st, NoSet, IdxBody(sh),
                    st # 200 \/ sh # "h3")
        /\ state_handle' = SelectedHandle(st, sh, state_handle)
    /\ Goto("mfa")
    /\ UNCHANGED <<file, clientSession, call, client, openClients,
                   initial_jsessionid, saml_url, identify_data, challenge_data,
                   authenticator_id, success_url, token_redirect, saml_form, mfaCalls, redirects,
                   lastUrl, console, session>>
    /\ UNCHANGED others

\* line 262: the callback returns a code, or raises
MfaCallback ==
    /\ pc = "mfa"
    /\ mfaCalls' = mfaCalls + 1
    /\ \/ Goto("answer")
       \/ Raise("CallbackError", "raised by mfa_callback")
    /\ UNCHANGED <<file, clientSession, call, client, openClients, jar, domOrder,
                   initial_jsessionid, saml_url, state_handle, identify_data,
                   challenge_data, authenticator_id, success_url, token_redirect, saml_form, reqs,
                   redirects, lastUrl, console, session, deviations>>
    /\ UNCHANGED others

\* lines 264-293
PostAnswer ==
    /\ pc = "answer"
    /\ \E st \in {200, 401}, su \in {Absent, PyNone, "{}", "hrefC"} :
        /\ Exchange("answer", Url(IDP, "/idp/idx/challenge/answer"), state_handle,
                    <<"totp">>, st, NoSet, NoPage, FALSE)
        /\ IF IdxFailed(st)
           THEN /\ Raise("AuthenticationError", "MFA failed")
                /\ UNCHANGED <<challenge_data, success_url, token_redirect>>
           ELSE /\ challenge_data' = [success |-> su]
                /\ IF su = PyNone
                   THEN /\ Raise("AttributeError",
                                 "'NoneType' object has no attribute 'get'")
                        /\ UNCHANGED <<success_url, token_redirect>>
                   ELSE ToToken(SuccessHref(su), state_handle)
    /\ UNCHANGED <<file, clientSession, call, client, openClients,
                   initial_jsessionid, saml_url, state_handle, identify_data,
                   authenticator_id, saml_form, mfaCalls, redirects, lastUrl,
                   console, session>>
    /\ UNCHANGED others

\* variant: the session is saved before it is looked at
Collect_SavesFirst(j, ord) ==
    LET s == BuildSession(JarCookies(j, ord), AuthSession(NoCookies, ""))
    IN  /\ file' = <<SaveData(s)>>
        /\ IF is_authenticated(s)
           THEN /\ session' = <<s>>
                /\ Goto("returned")
                /\ UNCHANGED console
           ELSE /\ console' = [console EXCEPT !.cookies = <<CookieNamesPresent(j, ord)>>]
                /\ Raise("AuthenticationError",
                         "Authentication completed but no session cookie")
                /\ UNCHANGED session

\* lines 369-387: the session is built from the jar, saved and returned, or
\* the cookies present are printed and the handshake fails
Collect(j, ord) ==
    LET s == BuildSession(JarCookies(j, ord), AuthSession(NoCookies, ""))
    IN  IF is_authenticated(s)
        THEN /\ file' = <<SaveData(s)>>
             /\ session' = <<s>>
             /\ Goto("returned")
             /\ UNCHANGED console
        ELSE /\ console' = [console EXCEPT !.cookies = <<CookieNamesPresent(j, ord)>>]
             /\ Raise("AuthenticationError",
                      "Authentication completed but no session cookie")
             /\ UNCHANGED <<file, session>>

\* lines 305-310: the service provider's JSESSIONID is printed before the
\* SAML POST; it is not compared with the initial one
PreSamlPrinted(j) ==
    IF j[<<JSESSIONID, SP>>] # Absent
    THEN [console EXCEPT !.pre_saml = <<j[<<JSESSIONID, SP>>]>>]
    ELSE console

\* lines 295-310
GetToken ==
    /\ pc = "token_get"
    /\ \E st \in ({200, 500}), html \in TokenPages :
        /\ Exchange("token_get", Url(IDP, token_redirect[1]), Absent, <<>>, st, NoSet,
                    NoPage,
                    html.saml /\ st >= 400)
        /\ saml_form' = extract_saml_response(html)
        /\ IF extract_saml_response(html).saml = <<>>
           THEN /\ Raise("AuthenticationError", "Could not extract SAML response")
                /\ UNCHANGED console
           ELSE /\ Goto("saml_post")
                /\ console' = PreSamlPrinted(jar')
    /\ UNCHANGED <<file, clientSession, call, client, openClients,
                   initial_jsessionid, saml_url, state_handle, identify_data,
                   challenge_data, authenticator_id, success_url, token_redirect,
                   mfaCalls, redirects, lastUrl, session>>
    /\ UNCHANGED others

\* lines 312-349 and 362-363
PostSaml ==
    /\ pc = "saml_post"
    /\ \E st \in {200, 302, 500}, setc \in SetCookieOptions("saml_post", NAV_TO_URL) :
        /\ Exchange("saml_post", NAV_TO_URL, Absent,
                    saml_form.saml[1] \o (IF saml_form.relay = <<>> THEN <<>>
                                          ELSE saml_form.relay[1]),
                    st, setc, NoPage, OffNominal("saml_post", NAV_TO_URL, st, setc))
        /\ Goto(IF st \in {301, 302} THEN "follow" ELSE "final_get")
    /\ lastUrl' = NAV_TO_URL
    /\ UNCHANGED <<file, clientSession, call, client, openClients,
                   initial_jsessionid, saml_url, state_handle, identify_data,
                   challenge_data, authenticator_id, success_url, token_redirect,
                   saml_form, mfaCalls, redirects, console, session>>
    /\ UNCHANGED others

\* lines 349-387: one iteration of the redirect-following loop
FollowRedirect ==
    /\ pc = "follow"
    /\ \E st \in ({200, 500} \cup (IF redirects < MaxRedirects THEN {302} ELSE {})),
          location \in Locations :
       \E setc \in SetCookieOptions("follow", location) :
        /\ Exchange("follow", location, Absent, <<>>, st, setc, NoPage,
                    OffNominal("follow", location, st, setc) \/ location # TARGET_URL)
        /\ lastUrl' = location
        /\ redirects' = IF st \in {301, 302} THEN redirects + 1 ELSE redirects
        /\ IF st \in {301, 302}
           THEN Goto("follow") /\ UNCHANGED <<file, session, console>>
           ELSE IF ~HasCustomerCenter(location)
           THEN Goto("final_get") /\ UNCHANGED <<file, session, console>>
           ELSE Collect(jar', domOrder')
    /\ UNCHANGED <<clientSession, call, client, openClients,
                   initial_jsessionid, saml_url, state_handle, identify_data,
                   challenge_data, authenticator_id, success_url, token_redirect,
                   saml_form, mfaCalls>>
    /\ UNCHANGED others

\* lines 362-387
GetTargetFinal ==
    /\ pc = "final_get"
    /\ \E st \in ({200, 500}), setc \in SetCookieOptions("final_get", TARGET_URL) :
        /\ Exchange("final_get", TARGET_URL, Absent, <<>>, st, setc, NoPage,
                    OffNominal("final_get", TARGET_URL, st, setc))
        /\ Collect(jar', domOrder')
    /\ lastUrl' = TARGET_URL
    /\ UNCHANGED <<clientSession, call, client, openClients,
                   initial_jsessionid, saml_url, state_handle, identify_data,
                   challenge_data, authenticator_id, success_url, token_redirect,
                   saml_form, mfaCalls, redirects>>
    /\ UNCHANGED others

\* the steps of authenticate that send a request, and what each sends
RequestSteps ==
    {"target_get", "sso_get", "redirect_get", "okta_get", "introspect", "identify",
     "select", "answer", "token_get", "saml_post", "follow", "final_get"}

StepUrl(p) ==
    CASE p = "sso_get" -> SSO_URL
      [] p = "redirect_get" -> AUTH_REDIRECT_URL
      [] p = "okta_get" -> saml_url[1]
      [] p = "introspect" -> Url(IDP, "/idp/idx/introspect")
      [] p = "identify" -> Url(IDP, "/idp/idx/identify")
      [] p = "select" -> Url(IDP, "/idp/idx/challenge")
      [] p = "answer" -> Url(IDP, "/idp/idx/challenge/answer")
      [] p = "token_get" -> Url(IDP, token_redirect[1])
      [] p = "saml_post" -> NAV_TO_URL
      [] OTHER -> TARGET_URL

StepPayload(p) ==
    CASE p = "introspect" -> unicode_escape(RawToken)
      [] p = "identify" -> <<"identifier", "passcode">>
      [] p = "select" -> <<authenticator_id, "totp">>
      [] p = "answer" -> <<"totp">>
      [] p = "saml_post" -> saml_form.saml[1] \o (IF saml_form.relay = <<>> THEN <<>>
                                                   ELSE saml_form.relay[1])
      [] OTHER -> <<>>

\* a request of the handshake gets no answer (DNS, TLS, timeout): httpx
\* raises and authenticate, which catches nothing, lets the error through.
\* Status 0 in the log stands for "no answer".
TransportError ==
    /\ pc \in RequestSteps
    /\ Exchange(pc, StepUrl(pc),
                IF pc \in {"identify", "select", "answer"} THEN state_handle ELSE Absent,
                StepPayload(pc), 0, NoSet, NoPage, TRUE)
    /\ Raise("TransportError", "raised by httpx")
    /\ UNCHANGED <<file, clientSession, call, client, openClients,
                   initial_jsessionid, saml_url, state_handle, identify_data,
                   challenge_data, authenticator_id, success_url, token_redirect,
                   saml_form, mfaCalls, redirects, lastUrl, console, session>>
    /\ UNCHANGED others

Next ==
    \/ \E force \in BOOLEAN : ClientAuthenticate(force)
    \/ Clear
    \/ ExitAuthenticate
    \/ GetTargetPage
    \/ GetSso
    \/ GetAuthRedirect
    \/ GetOktaPage
    \/ PostIntrospect
    \/ PostIdentify
    \/ PostSelect
    \/ MfaCallback
    \/ PostAnswer
    \/ GetToken
    \/ PostSaml
    \/ FollowRedirect
    \/ GetTargetFinal
    \/ TransportError

Spec == Init /\ [][Next]_vars

\* the client is used for several calls of authenticate
SpecRepeat == InitWith(MaxClients) /\ [][Next]_vars

\* the client runs one handshake at most: what OktaAuthenticator.authenticate
\* does does not depend on handshakes before it, each starts from a new
\* authenticator with a new httpx client
SpecOnce == InitWith(1) /\ [][Next]_vars

(***************************************************************************)
(* AuthSession.load and AuthSession.save applied to a stored file.         *)
(***************************************************************************)
\* files that save() wrote: a JSON object with the four keys, for some
\* cookie maps, identities and distinguished fields
WellFormedFiles ==
    {[cookies |-> c, user_email |-> e, user_id |-> u, glide_session_store |-> g] :
        c \in [CookieNames -> {Absent, "", "c1"}], e \in {"", "e1"},
        u \in {"", "u1"}, g \in {"", "g0"}}

InitStore ==
    /\ quota = 0
    /\ pc = "idle"
    /\ file \in {<<>>} \cup {<<f>> : f \in WellFormedFiles \cup OddFiles}
    /\ clientSession = <<>>
    /\ call = NoCall
    /\ client = 0
    /\ openClients = {}
    /\ deviations = 0
    /\ HandshakeInit
    /\ storePc = "start"
    /\ stored = file
    /\ loaded = <<>>
    /\ reloaded = <<>>
    /\ FlexNew
    /\ GroupIdle
    /\ AwaitIdle
    /\ cli = NoCommand

\* lines 41-55: session = AuthSession.load()
LoadStored ==
    /\ storePc = "start"
    /\ loaded' = Load(file)
    /\ storePc' = IF LoadRaises(file) THEN "raised"
                  ELSE IF Load(file) = <<>> THEN "none" ELSE "loaded"
    /\ UNCHANGED <<file, stored, reloaded, clientVars, flexVars, groupVars, awaitVars, cli>>

\* lines 30-39: session.save() to the same path
SaveLoaded ==
    /\ storePc = "loaded"
    /\ file' = <<SaveData(loaded[1])>>
    /\ storePc' = "saved"
    /\ UNCHANGED <<stored, loaded, reloaded, clientVars, flexVars, groupVars, awaitVars, cli>>

\* lines 41-55: the saved file is loaded again
LoadSaved ==
    /\ storePc = "saved"
    /\ reloaded' = Load(file)
    /\ storePc' = "reloaded"
    /\ UNCHANGED <<file, stored, loaded, clientVars, flexVars, groupVars, awaitVars, cli>>

NextStore ==
    \/ LoadStored
    \/ SaveLoaded
    \/ LoadSaved

SpecStore == InitStore /\ [][NextStore]_vars

(***************************************************************************)
(* FlexNetClient (download.py): the HTTP client it creates to authenticate *)
(* to the download centre, its operations and close().                     *)
(***************************************************************************)
\* how the request of an operation may end
RequestOutcomes == {"returned", "DownloadCenterError", "TransportError"}

InitFlexNet ==
    /\ ClientIdle
    /\ StoreIdle
    /\ GroupIdle
    /\ AwaitIdle
    /\ cli = NoCommand
    /\ FlexNew

\* download.py lines 76-123 with lines 131-135 (and 208-218, 270-286,
\* 347-356): an operation authenticates when it has to and sends its request.
\* A new httpx client replaces self._client, whatever that held before.
Operation(op) ==
    /\ IF flex_authenticated /\ flex_client # 0
       THEN /\ \E outcome \in RequestOutcomes :
                 flexLast' = [op |-> op, outcome |-> outcome]
            /\ UNCHANGED <<flex_client, flex_authenticated, flexOpen, flexCreated,
                           flexAuths>>
       ELSE /\ flexCreated < MaxFlexClients
            /\ flexCreated' = flexCreated + 1
            /\ flex_client' = flexCreated + 1
            /\ flexOpen' = flexOpen \cup {flexCreated + 1}
            /\ \E auth \in {"DownloadCenterError", "TransportError", "authenticated"} :
                 /\ flex_authenticated' = (auth = "authenticated")
                 /\ flexAuths' = IF auth = "authenticated" THEN flexAuths + 1
                                  ELSE flexAuths
                 /\ \E outcome \in RequestOutcomes :
                      flexLast' = [op |-> op,
                                   outcome |-> IF auth = "authenticated" THEN outcome
                                               ELSE auth]
    /\ UNCHANGED <<file, clientVars, storeVars, groupVars, awaitVars, cli>>

\* download.py lines 373-378
Close ==
    /\ flexOpen' = IF flex_client # 0 THEN flexOpen \ {flex_client} ELSE flexOpen
    /\ flex_client' = 0
    /\ flex_authenticated' = FALSE
    /\ flexAuths' = 0
    /\ flexLast' = [op |-> "close", outcome |-> "returned"]
    /\ UNCHANGED <<flexCreated, file, clientVars, storeVars, groupVars, awaitVars, cli>>

NextFlexNet ==
    \/ \E op \in {"list_products", "get_product_packages", "get_package_files",
                    "download_file"} : Operation(op)
    \/ Close

SpecFlexNet == InitFlexNet /\ [][NextFlexNet]_vars

(***************************************************************************)
(* upgrade.py: parse_module_name and _group_releases.                      *)
(*                                                                         *)
(* A short_description is the sequence of its whitespace-separated tokens. *)
(* A token has its text and what the regular expressions look at: does it  *)
(* start with a digit, and the number after "#" when it is "#" and digits  *)
(* (0 otherwise).  A date is a number that orders as the ISO string does,  *)
(* 0 for the empty string.                                                 *)
(***************************************************************************)
Word(text) == [text |-> text, digit |-> FALSE, update |-> 0]
Version(text) == [text |-> text, digit |-> TRUE, update |-> 0]
Update(text, n) == [text |-> text, digit |-> FALSE, update |-> n]

\* " ".join(parts)
RECURSIVE Join(_)
Join(parts) ==
    IF parts = <<>> THEN ""
    ELSE IF Len(parts) = 1 THEN parts[1].text
    ELSE parts[1].text \o " " \o Join(Tail(parts))

TAX_UPDATE == "BA HR Tax Update"

\* upgrade.py line 92: ^(BA HR Tax Update)\s+#\d+
IsTaxUpdate(desc) ==
    /\ Len(desc) >= 5
    /\ Join(SubSeq(desc, 1, 4)) = TAX_UPDATE
    /\ desc[5].update # 0

\* upgrade.py line 96: a trailing " - REPOST" is removed
StripRepost(desc) ==
    IF /\ Len(desc) >= 3
       /\ desc[Len(desc)].text = "REPOST"
       /\ desc[Len(desc) - 1].text = "-"
    THEN SubSeq(desc, 1, Len(desc) - 2)
    ELSE desc

\* upgrade.py lines 99-101: trailing tokens that start with a digit are dropped
RECURSIVE DropVersions(_)
DropVersions(parts) ==
    IF parts # <<>> /\ parts[Len(parts)].digit
    THEN DropVersions(SubSeq(parts, 1, Len(parts) - 1))
    ELSE parts

\* upgrade.py lines 80-102
parse_module_name(desc) ==
    IF IsTaxUpdate(desc) THEN TAX_UPDATE
    ELSE IF DropVersions(StripRepost(desc)) # <<>>
         THEN Join(DropVersions(StripRepost(desc)))
         ELSE Join(desc)

\* variant: the release date comes before the target date
DateKey_ReleasedFirst(r) ==
    IF r.date_released # 0 THEN r.date_released ELSE r.target_ga_date

\* upgrade.py line 180: r.target_ga_date or r.date_released or ""
DateKey(r) == IF r.target_ga_date # 0 THEN r.target_ga_date ELSE r.date_released

\* upgrade.py line 186: the number of the first "#<digits>" of the
\* description, 0 when there is none
RECURSIVE UpdateNumber(_)
UpdateNumber(desc) ==
    IF desc = <<>> THEN 0
    ELSE IF Head(desc).update # 0 THEN Head(desc).update
    ELSE UpdateNumber(Tail(desc))

SortKey(r, by) == IF by = "date" THEN DateKey(r) ELSE UpdateNumber(r.short_description)

\* list.sort(key=...): stable, so a release goes behind those of equal key
RECURSIVE Insert(_, _, _)
Insert(sorted, r, by) ==
    IF sorted = <<>> THEN <<r>>
    ELSE IF SortKey(r, by) < SortKey(Head(sorted), by) THEN <<r>> \o sorted
    ELSE <<Head(sorted)>> \o Insert(Tail(sorted), r, by)

RECURSIVE Sorted(_, _)
Sorted(rs, by) ==
    IF rs = <<>> THEN <<>>
    ELSE Insert(Sorted(SubSeq(rs, 1, Len(rs) - 1), by), rs[Len(rs)], by)

\* upgrade.py lines 168-176: the names in the order of their first release
RECURSIVE Order(_)
Order(rs) ==
    IF rs = <<>> THEN <<>>
    ELSE LET before == Order(SubSeq(rs, 1, Len(rs) - 1))
             name == parse_module_name(rs[Len(rs)].short_description)
         IN  IF \E i \in 1..Len(before) : before[i] = name THEN before
             ELSE Append(before, name)

\* upgrade.py lines 172-176: the releases appended to the module of a name
Members(rs, name) ==
    SelectSeq(rs, LAMBDA r : parse_module_name(r.short_description) = name)

\* upgrade.py lines 178-187: sorted by date, the tax updates then by number
ModuleReleases(rs, name) ==
    IF name = TAX_UPDATE
    THEN Sorted(Sorted(Members(rs, name), "date"), "update")
    ELSE Sorted(Members(rs, name), "date")

\* upgrade.py lines 166-189
group_releases(rs) ==
    [i \in 1..Len(Order(rs)) |->
        [name |-> Order(rs)[i], releases |-> ModuleReleases(rs, Order(rs)[i])]]

\* the releases given to _group_releases, without their identity:
\* description, target_ga_date, date_released
ReleaseData ==
    LET FinAid == <<Word("BA"), Word("FIN"), Word("AID"), Version("9.3.57")>>
        FinAidRepost ==
            <<Word("BA"), Word("FIN"), Word("AID"), Version("8.55"), Word("-"),
              Word("REPOST")>>
        General == <<Word("BA"), Word("GENERAL"), Version("8.26")>>
        Tax == <<Word("BA"), Word("HR"), Word("Tax"), Word("Update")>>
    IN  {<<FinAid, <<2, 0>>>>, <<FinAid, <<1, 3>>>>,
         <<FinAidRepost, <<0, 1>>>>, <<FinAidRepost, <<2, 0>>>>,
         <<General, <<2, 0>>>>,
         <<Tax \o <<Update("#346", 346)>>, <<0, 0>>>>,
         <<Tax \o <<Update("#346", 346)>>, <<2, 0>>>>,
         <<Tax \o <<Update("#339", 339)>>, <<0, 0>>>>,
         <<Tax \o <<Version("2026")>>, <<2, 0>>>>}

\* the Release whose sys_id is its place in the list
Release(i, d) ==
    [sys_id |-> i, short_description |-> d[1], target_ga_date |-> d[2][1],
     date_released |-> d[2][2]]

InitGroup ==
    /\ ClientIdle
    /\ StoreIdle
    /\ FlexNew
    /\ AwaitIdle
    /\ cli = NoCommand
    /\ releases \in
         UNION {{[i \in 1..n |-> Release(i, ds[i])] : ds \in [1..n -> ReleaseData]} :
                  n \in 0..MaxReleases}
    /\ modules = <<>>
    /\ groupPc = "called"

\* upgrade.py lines 166-189: _group_releases(releases)
GroupReleases ==
    /\ groupPc = "called"
    /\ modules' = group_releases(releases)
    /\ groupPc' = "returned"
    /\ UNCHANGED <<releases, file, clientVars, storeVars, flexVars, awaitVars, cli>>

NextGroup == GroupReleases

SpecGroup == InitGroup /\ [][NextGroup]_vars

(***************************************************************************)
(* sos: the await-change command (cli.py) polling get_changed_pages        *)
(* (logseq.py) while the graph is edited.                                  *)
(***************************************************************************)
\* logseq.py lines 103-113: the pages with updated-at >= since_ms
get_changed_pages(since_ms) == {p \in PageNames : updated_at[p] >= since_ms}

InitAwait ==
    /\ ClientIdle
    /\ StoreIdle
    /\ FlexNew
    /\ GroupIdle
    /\ AwaitIdle
    /\ cli = NoCommand

\* a millisecond passes
Tick ==
    /\ clock < MaxTime
    /\ clock' = clock + 1
    /\ UNCHANGED <<updated_at, awaitPc, check_from, pages, timestamp, reported, started,
                   file, clientVars, storeVars, flexVars, groupVars, cli>>

\* a block of the page is edited: Logseq sets the page's updated-at
PageChange(p) ==
    /\ updated_at[p] # clock
    /\ updated_at' = [updated_at EXCEPT ![p] = clock]
    /\ UNCHANGED <<clock, awaitPc, check_from, pages, timestamp, reported, started,
                   file, clientVars, storeVars, flexVars, groupVars, cli>>

\* cli.py lines 308-312: the command starts; the first call of a chain has
\* no --since, a later one is given the timestamp of the output before it
AwaitChange ==
    /\ awaitPc = "idle"
    /\ check_from' = IF started = <<>> THEN clock ELSE timestamp
    /\ started' = IF started = <<>> THEN <<clock>> ELSE started
    /\ awaitPc' = "poll"
    /\ UNCHANGED <<clock, updated_at, pages, timestamp, reported,
                   file, clientVars, storeVars, flexVars, groupVars, cli>>

\* cli.py lines 315-317 and 328-340: one query; without a change the
\* command sleeps and polls again, or finds its timeout reached
Poll ==
    /\ awaitPc = "poll"
    /\ pages' = get_changed_pages(check_from)
    /\ \/ pages' # {} /\ awaitPc' = "found"
       \/ pages' = {} /\ awaitPc' \in {"poll", "timeout"}
    /\ UNCHANGED <<clock, updated_at, check_from, timestamp, reported, started,
                   file, clientVars, storeVars, flexVars, groupVars, cli>>

\* cli.py lines 319-326 and 330-338: now is read and the output is printed
Output ==
    /\ awaitPc \in {"found", "timeout"}
    /\ timestamp' = clock
    /\ reported' = reported \cup pages
    /\ awaitPc' = "idle"
    /\ UNCHANGED <<clock, updated_at, check_from, pages, started,
                   file, clientVars, storeVars, flexVars, groupVars, cli>>

NextAwait ==
    \/ Tick
    \/ \E p \in PageNames : PageChange(p)
    \/ AwaitChange
    \/ Poll
    \/ Output

SpecAwait == InitAwait /\ [][NextAwait]_vars

(***************************************************************************)
(* The ellucian-support command line (cli.py): login, and the commands     *)
(* that consume a session; EllucianClient.get (client.py).                 *)
(***************************************************************************)
\* the commands that send consumer requests with the stored session
ConsumerCommands ==
    {"find", "fetch", "ticket", "tickets", "comment", "download", "releases",
     "upgrades gather"}

\* the locals of authenticate go with its frame
ForgetHandshake ==
    /\ jar' = EmptyJar
    /\ domOrder' = <<>>
    /\ initial_jsessionid' = PyNone
    /\ saml_url' = <<>>
    /\ state_handle' = PyNone
    /\ identify_data' = NoBody
    /\ challenge_data' = [success |-> Absent]
    /\ authenticator_id' = PyNone
    /\ success_url' = PyNone
    /\ token_redirect' = <<>>
    /\ saml_form' = [saml |-> <<>>, relay |-> <<>>]
    /\ mfaCalls' = 0
    /\ reqs' = <<>>
    /\ redirects' = 0
    /\ lastUrl' = Url("", "")
    /\ console' = NoConsole
    /\ error' = NoError
    /\ session' = <<>>

\* a command ends with this exit status and message
Exited(c, status, out) == [c EXCEPT !.stage = "exited", !.exit = status, !.out = out]

\* variant: the failure is printed and the command ends normally
LoginOutcome_PrintsOnly(c, raised, reason, mfa, prompts) ==
    [Exited(c, 0,
            IF raised = "" THEN "Authentication successful!"
            ELSE "Authentication failed: " \o reason)
        EXCEPT !.raised = raised, !.reason = reason, !.mfa = mfa, !.prompts = prompts]

\* cli.py lines 62-68: success is printed, or any exception is caught,
\* printed and turned into exit status 1
LoginOutcome(c, raised, reason, mfa, prompts) ==
    [Exited(c, IF raised = "" THEN 0 ELSE 1,
            IF raised = "" THEN "Authentication successful!"
            ELSE "Authentication failed: " \o reason)
        EXCEPT !.raised = raised, !.reason = reason, !.mfa = mfa, !.prompts = prompts]

\* cli.py lines 46-61: login [--force]; without credentials in the
\* environment it ends at once
Login(force) ==
    /\ cli.stage = "shell"
    /\ \E credentials \in BOOLEAN :
        cli' = IF credentials
               THEN [cli EXCEPT !.cmd = "login", !.force = force, !.stage = "authenticate"]
               ELSE Exited([cli EXCEPT !.cmd = "login", !.force = force], 1, "Error")
    /\ UNCHANGED <<file, clientVars, storeVars, flexVars, groupVars, awaitVars>>

\* cli.py line 63: client.authenticate(force=force), called once
LoginAuthenticate ==
    /\ cli.cmd = "login"
    /\ cli.stage = "authenticate"
    /\ call = NoCall
    /\ ClientAuthenticate(cli.force)

\* cli.py lines 61-68 with client.py lines 107-119: authenticate has
\* returned or raised, the authenticator is closed, login prints and exits
LoginExit ==
    /\ cli.cmd = "login"
    /\ cli.stage = "authenticate"
    /\ call # NoCall
    /\ \/ /\ pc \in {"returned", "raised"}
          /\ cli' = LoginOutcome(cli, IF pc = "raised" THEN error.type ELSE "",
                                 error.msg,
                                 IF \A i \in 1..Len(reqs) : reqs[i].step # "answer"
                                 THEN "none"
                                 ELSE IF \E i \in 1..Len(reqs) :
                                            /\ reqs[i].step = "answer"
                                            /\ reqs[i].status = 200
                                 THEN "passed"
                                 ELSE "failed",
                                 mfaCalls)
          /\ clientSession' = IF pc = "returned" THEN session ELSE clientSession
          /\ openClients' = openClients \ {client}
          /\ pc' = "idle"
          /\ ForgetHandshake
          /\ UNCHANGED <<file, call, client, deviations>>
       \/ /\ pc = "idle"
          /\ cli' = LoginOutcome(cli, call.exc, "", "none", 0)
          /\ UNCHANGED <<file, pc, clientSession, call, client, openClients, hvars,
                         deviations>>
    /\ UNCHANGED <<quota, storeVars, flexVars, groupVars, awaitVars>>

\* cli.py lines 428-439 (_require_session) and the same lines inlined in
\* find, fetch, ticket, tickets and comment (121-128, 202-209, 272-279,
\* 345-352, 399-406): the stored session is loaded and probed; an exception
\* of load() or of the probe ends the command with a traceback
RequireSession(cmd) ==
    /\ cli.stage = "shell"
    /\ LET c == [cli EXCEPT !.cmd = cmd]
           saved == Load(file)
       IN  IF LoadRaises(file)
           THEN cli' = [Exited(c, 1, "Traceback") EXCEPT !.raised = "AttributeError"]
           ELSE IF saved = <<>>
           THEN cli' = Exited(c, 1, "No session found. Run 'login' first.")
           ELSE \E answered \in BOOLEAN, header \in LoggedInHeaders :
                 /\ ~ValidatorProbes(saved[1]) => answered /\ header = Absent
                 /\ ~answered => header = Absent
                 /\ LET checked == [session |-> saved[1],
                                    probed |-> ValidatorProbes(saved[1]),
                                    header |-> header,
                                    valid |-> answered /\ validate_session(saved[1], header)]
                        d == [c EXCEPT !.checked = <<checked>>]
                    IN  cli' = IF ~answered
                               THEN [Exited(d, 1, "Traceback")
                                        EXCEPT !.raised = "TransportError"]
                               ELSE IF ~checked.valid
                               THEN Exited(d, 1, "Session expired. Run 'login' to re-authenticate.")
                               ELSE [d EXCEPT !.stage = "consume"]
    /\ UNCHANGED <<file, clientVars, storeVars, flexVars, groupVars, awaitVars>>

\* cli.py lines 132-144 (and 211-215, 281-285, 354-358, 408-420, 457-467,
\* 640-646, 827-840): the command's request, sent with the cookies of the
\* session it holds
ConsumerRequest ==
    /\ cli.stage = "consume"
    /\ \E answered \in BOOLEAN :
        cli' = Exited([cli EXCEPT !.requests =
                          Append(@, [cmd |-> cli.cmd,
                                     cookies |-> cli.checked[1].session.cookies])],
                      IF answered THEN 0 ELSE 1,
                      IF answered THEN "results" ELSE "Error")
    /\ UNCHANGED <<file, clientVars, storeVars, flexVars, groupVars, awaitVars>>

\* a program creates an EllucianClient and calls get
UseClient ==
    /\ cli.stage = "shell"
    /\ cli' = [cli EXCEPT !.cmd = "EllucianClient.get", !.stage = "get"]
    /\ UNCHANGED <<file, clientVars, storeVars, flexVars, groupVars, awaitVars>>

\* client.py lines 121-124
ClientIsAuthenticated == clientSession # <<>> /\ is_authenticated(clientSession[1])

\* client.py lines 128-129: get authenticates first when it has to
GetAuthenticates ==
    /\ cli.stage = "get"
    /\ call = NoCall
    /\ ~ClientIsAuthenticated
    /\ ClientAuthenticate(FALSE)

\* client.py lines 107-119 within get
GetExitAuthenticate ==
    /\ cli.stage = "get"
    /\ ExitAuthenticate

\* client.py lines 130 and 67-79: the request, sent through a client that
\* holds the cookies of self._session; an exception of authenticate ends get
\* before it
ClientGet ==
    /\ cli.stage = "get"
    /\ call # NoCall
    /\ pc = "idle"
    /\ cli' = IF ClientIsAuthenticated
              THEN Exited([cli EXCEPT !.requests =
                              Append(@, [cmd |-> cli.cmd,
                                         cookies |-> clientSession[1].cookies])],
                          0, "response")
              ELSE Exited(cli, 1, "Traceback")
    /\ UNCHANGED <<file, clientVars, storeVars, flexVars, groupVars, awaitVars>>

NextCli ==
    \/ \E force \in BOOLEAN : Login(force)
    \/ LoginAuthenticate
    \/ LoginExit
    \/ \E cmd \in ConsumerCommands : RequireSession(cmd)
    \/ ConsumerRequest
    \/ UseClient
    \/ GetAuthenticates
    \/ GetExitAuthenticate
    \/ ClientGet
    \/ GetTargetPage
    \/ GetSso
    \/ GetAuthRedirect
    \/ GetOktaPage
    \/ PostIntrospect
    \/ PostIdentify
    \/ PostSelect
    \/ MfaCallback
    \/ PostAnswer
    \/ GetToken
    \/ PostSaml
    \/ FollowRedirect
    \/ GetTargetFinal
    \/ TransportError

\* one invocation of the command line, or one program using the client
SpecCli == Init /\ [][NextCli]_vars

\* lines 349-355 have no iteration limit: a redirect answer to a followed
\* redirect is followed again. Beyond the MaxRedirects redirects the log
\* keeps, such an iteration is a bare redirect (no Set-Cookie) to another
\* location and leaves the log as it is.
FollowRedirectUnlogged ==
    /\ pc = "follow"
    /\ redirects = MaxRedirects
    /\ \E location \in Locations : location # lastUrl /\ lastUrl' = location
    /\ UNCHANGED <<pc, file, clientSession, call, client, openClients, jar, domOrder,
                   initial_jsessionid, saml_url, state_handle, identify_data,
                   challenge_data, authenticator_id, success_url, token_redirect,
                   saml_form, mfaCalls, reqs, redirects, console, error, session,
                   deviations>>
    /\ UNCHANGED others

NextUnbounded ==
    \/ \E force \in BOOLEAN : ClientAuthenticate(force)
    \/ Clear
    \/ ExitAuthenticate
    \/ GetTargetPage
    \/ GetSso
    \/ GetAuthRedirect
    \/ GetOktaPage
    \/ PostIntrospect
    \/ PostIdentify
    \/ PostSelect
    \/ MfaCallback
    \/ PostAnswer
    \/ GetToken
    \/ PostSaml
    \/ FollowRedirect
    \/ FollowRedirectUnlogged
    \/ GetTargetFinal
    \/ TransportError

\* the handshake with its redirect loop unbounded; every request is answered
\* and the callback returns, so a step that can be taken is taken
SpecUnbounded == Init /\ [][NextUnbounded]_vars /\ WF_vars(NextUnbounded)

(***************************************************************************)
(* Observations the properties are stated on.                              *)
(***************************************************************************)
\* indices of the requests of a step in the log of the handshake
Sent(step) == {i \in 1..Len(reqs) : reqs[i].step = step}

Answered200(step) == \E i \in Sent(step) : reqs[i].status = 200

\* a success object that carries an href
HasHref(su) == su \notin {Absent, PyNone, "{}"}

\* the remediation object lists the TOTP authenticator among its options
NamesTotp(body) ==
    /\ body.rem_kind = "object"
    /\ \E i \in 1..Len(body.options) : body.options[i].label = TOTP_LABEL

\* the jar holds a distinguished cookie, whatever its value / with a value
JarHasGss(j) == \E k \in CookieKeys : k[1] = GSS /\ j[k] # Absent
JarHasNonEmptyGss(j) == \E k \in CookieKeys : k[1] = GSS /\ j[k] \notin {Absent, ""}

\* the handshake ran to its end: the last request is the one whose answer
\* the session is collected from
Collected ==
    /\ pc \in {"returned", "raised"}
    /\ Len(reqs) > 0
    /\ reqs[Len(reqs)].step \in {"follow", "final_get"}
    /\ reqs[Len(reqs)].status \notin {0, 301, 302}

\* the jar obtained by storing the Set-Cookie headers of the first n answers
\* of the log, in order, into an empty jar
RECURSIVE Replay(_)
Replay(n) ==
    IF n = 0 THEN EmptyJar
    ELSE LET prev == Replay(n - 1)
             setc == reqs[n].setc
         IN  IF setc = <<>> THEN prev
             ELSE [prev EXCEPT ![setc[1]] = IF setc[2] = "EXPIRE" THEN "ABSENT" ELSE setc[2]]

(***************************************************************************)
(* IDX stepper.                                                            *)
(***************************************************************************)
\* C1: when the identify answer carries a remediation object that names the
\* TOTP authenticator, the MFA callback is invoked exactly once (never before
\* the selection call was answered, once from then on), and the only URL ever
\* fetched for the assertion is the href of the success object of the
\* challenge/answer response, never a URL built from a stateHandle.
C1_MfaOnceThenChallengeHref ==
    NamesTotp(identify_data) =>
        /\ mfaCalls = IF \/ pc \in {"select", "mfa"}
                          \/ \E i \in Sent("select") : reqs[i].status = 0
                       THEN 0 ELSE 1
        /\ Cardinality(Sent("select")) = IF pc = "select" THEN 0 ELSE 1
        /\ \A i \in Sent("token_get") :
              /\ HasHref(challenge_data.success)
              /\ reqs[i].url = Url(IDP, challenge_data.success)
              /\ \E a \in Sent("answer") : a < i /\ reqs[a].status = 200
        /\ token_redirect # <<>> => token_redirect = <<challenge_data.success>>

C1_Witness ==
    /\ NamesTotp(identify_data)
    /\ pc = "returned"
    /\ mfaCalls = 1
    /\ reqs[CHOOSE i \in Sent("token_get") : TRUE].url = Url(IDP, "hrefC")

\* the stateHandle most recently returned by a 200 answer among the first n
\* requests of the log
RECURSIVE HandleAfter(_)
HandleAfter(n) ==
    IF n = 0 THEN "None"
    ELSE IF /\ reqs[n].step \in {"introspect", "identify", "select"}
            /\ reqs[n].status = 200
            /\ reqs[n].page.stateHandle # "ABSENT"
         THEN reqs[n].page.stateHandle
         ELSE HandleAfter(n - 1)

\* C14: identify, the selection call and challenge/answer each carry the
\* stateHandle most recently returned by a 200 answer of the identity
\* provider in this handshake (identify: the one of introspect, which
\* directly precedes it); a handle in a non-200 answer is never adopted.
C14_LatestHandleThreaded ==
    /\ \A i \in Sent("identify") \cup Sent("select") \cup Sent("answer") :
          reqs[i].handle = HandleAfter(i - 1)
    /\ \A i \in Sent("identify") :
          /\ reqs[i - 1].step = "introspect" /\ reqs[i - 1].status = 200
          /\ reqs[i].handle = reqs[i - 1].page.stateHandle
    /\ pc \in {"identify", "select", "mfa", "answer"} =>
          state_handle = HandleAfter(Len(reqs))

C14_Witness ==
    /\ \E i \in Sent("identify") : reqs[i].handle = "h1"
    /\ \E i \in Sent("select") : reqs[i].handle = "h2"
    /\ \E i \in Sent("answer") : reqs[i].handle = "h3"
    /\ pc = "returned"

\* the id the body names for the TOTP authenticator: the id of the first
\* option with the TOTP label, else of the first list entry with the TOTP
\* key, else "None"
NamedId(body) ==
    LET os == {i \in 1..Len(body.options) : body.options[i].label = "Okta Verify"}
        as == {i \in 1..Len(body.authenticators) :
                  body.authenticators[i].key = "okta_verify"}
    IN  IF os # {}
        THEN body.options[CHOOSE i \in os : \A j \in os : i <= j].id
        ELSE IF as # {}
        THEN body.authenticators[CHOOSE i \in as : \A j \in as : i <= j].id
        ELSE "None"

\* C15: when the identify answer asks for MFA and names an authenticator id
\* (in the remediation tree, else in the flat list), exactly one selection
\* POST with that id and method totp is sent, right after identify and
\* before the MFA callback is invoked; when it names none, no selection
\* request is sent and the handshake does not fail there: it invokes the
\* callback and, once the callback returned, posts challenge/answer.
C15_SelectionOnlyWithId ==
    identify_data.rem_kind = "object" =>
        IF NamedId(identify_data) # "None"
        THEN /\ Cardinality(Sent("select")) = IF pc = "select" THEN 0 ELSE 1
             /\ \A i \in Sent("select") :
                   /\ reqs[i].payload = <<NamedId(identify_data), "totp">>
                   /\ reqs[i].url = Url(IDP, "/idp/idx/challenge")
                   /\ reqs[i - 1].step = "identify"
                   /\ \A a \in Sent("answer") : i < a
             /\ (pc \in {"select", "mfa"}) => mfaCalls = 0
             /\ mfaCalls > 0 => \E i \in Sent("select") : reqs[i].status # 0
        ELSE /\ Sent("select") = {}
             /\ pc # "select"
             /\ pc = "mfa" \/ mfaCalls = 1
             /\ (mfaCalls = 1 /\ error.type # "CallbackError") =>
                   (pc = "answer" \/ Sent("answer") # {})

C15_Witness ==
    /\ identify_data.rem_kind = "object"
    /\ NamedId(identify_data) = "None"
    /\ Sent("select") = {}
    /\ Sent("answer") # {}
    /\ mfaCalls = 1

\* C16 as stated: when authenticate has terminated abnormally, it raised
\* AuthenticationError or a transport error; in particular an IDX answer of
\* unexpected shape ends the handshake with AuthenticationError.
C16_TwoErrorKinds ==
    pc = "raised" => error.type \in {"AuthenticationError", "TransportError"}

\* C17: the identifier and the password are sent in at most one request of
\* a handshake, the identify POST to the identity provider's identify
\* endpoint, and only right after introspect was answered 200 with a
\* non-empty stateHandle; an introspect answer that is not 200 or has no
\* stateHandle (missing, null or empty) ends the handshake with
\* AuthenticationError and the credentials are never sent.
C17_CredentialsOnlyInIdentify ==
    /\ Cardinality(Sent("identify")) <= 1
    /\ \A i \in 1..Len(reqs) :
          (\E k \in 1..Len(reqs[i].payload) :
                reqs[i].payload[k] \in {"identifier", "passcode"}) =>
              /\ reqs[i].step = "identify"
              /\ reqs[i].url = Url("sso.ellucian.com", "/idp/idx/identify")
              /\ reqs[i - 1].step = "introspect"
              /\ reqs[i - 1].status = 200
              /\ reqs[i - 1].page.stateHandle \notin {"ABSENT", "None", ""}
    /\ \A i \in Sent("introspect") :
          (/\ reqs[i].status # 0
           /\ \/ reqs[i].status # 200
              \/ reqs[i].page.stateHandle \in {"ABSENT", "None", ""}) =>
              /\ pc = "raised"
              /\ error.type = "AuthenticationError"
              /\ i = Len(reqs)

C17_Witness ==
    /\ pc = "raised"
    /\ error.msg = "Could not get stateHandle from introspect"
    /\ reqs[Len(reqs)].status = 200
    /\ reqs[Len(reqs)].page.stateHandle = ""

\* C2 as stated: whenever the identify answer carries a success object, the
\* MFA callback is not invoked, no challenge request is sent and the
\* assertion is fetched from the href of identify's success object.
C2_SuccessSkipsMfa ==
    (Answered200("identify") /\ identify_data.success \notin {Absent, PyNone}) =>
        /\ mfaCalls = 0
        /\ Sent("select") = {} /\ Sent("answer") = {}
        /\ pc \notin {"select", "mfa", "answer"}
        /\ \A i \in Sent("token_get") : reqs[i].url = Url(IDP, identify_data.success)

\* C2 amended: when the identify answer has no remediation key and carries a
\* success object with an href, the MFA callback is not invoked, no challenge
\* request is sent, and the handshake goes straight on to fetch that href.
C2_NoRemediationSkipsMfa ==
    (/\ Answered200("identify")
     /\ identify_data.rem_kind = "absent"
     /\ HasHref(identify_data.success)) =>
        /\ mfaCalls = 0
        /\ Sent("select") = {} /\ Sent("answer") = {}
        /\ success_url = identify_data.success
        /\ token_redirect = <<identify_data.success>>
        /\ Cardinality(Sent("token_get")) = IF pc = "token_get" THEN 0 ELSE 1
        /\ \A i \in Sent("token_get") :
              /\ reqs[i].url = Url(IDP, identify_data.success)
              /\ reqs[i - 1].step = "identify"

C2_Witness ==
    /\ identify_data.rem_kind = "absent"
    /\ identify_data.success = "hrefI"
    /\ pc = "returned"
    /\ mfaCalls = 0

\* C3: the SAML assertion is posted at most once per handshake, and only
\* after the IDX flow gave a success href that was then fetched; when the
\* challenge/answer call is answered with a status other than 200 the
\* handshake raises AuthenticationError at once: the assertion is never
\* posted and no request follows the answer call.
C3_SamlPostOnceAfterSuccess ==
    /\ Cardinality(Sent("saml_post")) <= 1
    /\ \A i \in Sent("saml_post") :
          /\ token_redirect # <<>>
          /\ HasHref(token_redirect[1])
          /\ token_redirect[1] \in {identify_data.success, challenge_data.success}
          /\ reqs[i - 1].step = "token_get"
          /\ reqs[i - 1].url = Url(IDP, token_redirect[1])
    /\ \A a \in Sent("answer") :
          reqs[a].status \notin {0, 200} =>
              /\ pc = "raised"
              /\ error.type = "AuthenticationError"
              /\ a = Len(reqs)
              /\ Sent("saml_post") = {}

C3_Witness ==
    /\ pc = "raised"
    /\ error.msg = "MFA failed"
    /\ \E a \in Sent("answer") : reqs[a].status = 401

\* C4 as stated: only the href of a success object of the identify or the
\* challenge/answer response is ever fetched for the assertion, and when the
\* IDX flow has ended and neither response carries such an href the
\* handshake has failed with AuthenticationError without fetching anything.
C4_OnlySuccessHref ==
    /\ \A i \in Sent("token_get") :
          \E su \in {identify_data.success, challenge_data.success} :
              HasHref(su) /\ reqs[i].url = Url(IDP, su)
    /\ (/\ \/ Answered200("identify") /\ identify_data.rem_kind = "absent"
           \/ Answered200("answer")
        /\ ~HasHref(identify_data.success)
        /\ ~HasHref(challenge_data.success)) =>
          /\ pc = "raised"
          /\ error.type = "AuthenticationError"
          /\ Sent("token_get") = {}

\* C5 as stated: from the SSO-initiation GET on, a request answered with a
\* status that is neither 2xx nor 3xx is the last request of the handshake,
\* which has failed with AuthenticationError.
C5_ErrorStatusStops ==
    \A i \in 1..Len(reqs) :
        (reqs[i].step # "target_get" /\ reqs[i].status >= 400) =>
            /\ i = Len(reqs)
            /\ pc = "raised"
            /\ error.type = "AuthenticationError"

(***************************************************************************)
(* Session store.                                                          *)
(***************************************************************************)
\* C11 as stated: load does not raise and returns no session when the file
\* is missing, is empty, is malformed JSON, or is valid JSON that lacks keys
\* of a saved session.
C11_LoadNeverRaisesNoSession ==
    (/\ call.input # <<>>
     /\ \/ call.input[1] = <<>>
        \/ call.input[1] # <<>> /\ DOMAIN call.input[1][1] # DOMAIN SaveData(OldSession)) =>
        /\ call.exc = ""
        /\ call.saved = <<>>

\* C12: a session is authenticated exactly when its field
\* glide_session_store is a non-empty string, whatever its cookie map holds:
\* this holds of every session the program has in hand, the validator probes
\* exactly for the saved sessions with a non-empty field, and a session
\* returned by authenticate is authenticated.
C12_AuthenticatedIffField ==
    /\ \A s \in {call.saved, clientSession, session, Load(file)} :
          s # <<>> => (is_authenticated(s[1]) <=> s[1].glide_session_store # "")
    /\ call.saved # <<>> =>
          (call.probes = 1 <=> call.saved[1].glide_session_store # "")
    /\ session # <<>> => pc = "returned"
    /\ pc = "returned" =>
          /\ session # <<>>
          /\ session[1].glide_session_store # ""
          /\ is_authenticated(session[1])

C12_Witness ==
    /\ call.saved # <<>>
    /\ call.saved[1].cookies[GSS] = Absent
    /\ call.saved[1].glide_session_store = "g0"
    /\ call.probes = 1

\* C6: a step changes the session file only if it is clear(), which deletes
\* it, or the end of a handshake whose jar holds a non-empty distinguished
\* cookie, which writes the returned session; a step that fails the
\* handshake and a call of authenticate whose validation of the saved
\* session returns False leave the file as it was.
C6_FileWrittenOnlyOnSuccessOrClear ==
    [][ /\ file' # file =>
            \/ pc = "idle" /\ pc' = "idle" /\ call' = call /\ file' = <<>>
            \/ /\ pc' = "returned"
               /\ JarHasNonEmptyGss(jar')
               /\ session' # <<>>
               /\ file' = <<SaveData(session'[1])>>
        /\ pc' = "raised" => file' = file
        /\ (pc = "idle" /\ pc' = "target_get") => file' = file
      ]_vars

C6_Witness ==
    /\ pc = "raised"
    /\ Len(reqs) > 0
    /\ file = <<SaveData(OldSession)>>
    /\ call.probes = 1 /\ call.header = "false"

C19_RotationFlagged ==
    (/\ initial_jsessionid # "None"
     /\ jar[<<JSESSIONID, SP>>] \notin {"ABSENT", initial_jsessionid}) =>
        console.warnings # {}

C20_FinalGetIffNotTarget ==
    /\ \A i \in Sent("follow") :
          /\ reqs[i - 1].step \in {"saml_post", "follow"}
          /\ reqs[i - 1].status \in {301, 302}
    /\ Collected =>
          LET chain == Sent("saml_post") \cup Sent("follow")
              last == CHOOSE i \in chain : \A j \in chain : j <= i
          IN  /\ reqs[last].status \notin {301, 302}
              /\ Cardinality(Sent("final_get")) =
                    IF reqs[last].url # Url(SP, "/customer_center?id=customer_center_home")
                    THEN 1 ELSE 0
    /\ session # <<>> => Collected

\* C21 as stated: the session a handshake returns holds exactly the cookies
\* of the service provider's domain, each with the value it has in the jar,
\* and its distinguished field is the service provider's cookie.
C21_OnlyServiceProviderCookies ==
    pc = "returned" =>
        /\ \A n \in CookieNames :
              session[1].cookies[n] = jar[<<n, SP>>]
        /\ session[1].glide_session_store = jar[<<GSS, SP>>]

\* C22 as stated: the URL fetched as the identity provider's login page is
\* on the identity provider's host, and a page of the service provider that
\* holds no URL of that host fails the handshake with AuthenticationError
\* before anything else is fetched.
C22_LoginPageOnIdpHost ==
    /\ \A i \in Sent("okta_get") : reqs[i].url.host = IDP
    /\ \A i \in Sent("sso_get") \cup Sent("redirect_get") :
          (/\ reqs[i].status # 0
           /\ reqs[i].step = "sso_get" => reqs[i].status # 302
           /\ ~reqs[i].page.app
           /\ ~reqs[i].page.bare) =>
              /\ pc = "raised"
              /\ error.type = "AuthenticationError"
              /\ i = Len(reqs)

\* C29 as stated: the stateHandle sent in an IDX request (identify, the
\* selection call, challenge/answer) is always a non-empty string, whatever
\* stateHandle the answers of the identity provider carry.
C29_HandleNeverEmpty ==
    \A i \in Sent("identify") \cup Sent("select") \cup Sent("answer") :
        reqs[i].handle \notin {Absent, PyNone, ""}

\* C28 as stated: when the callback returns and every request is answered, a
\* handshake that has begun ends, returning or raising, whatever the answers
\* are, any sequence of 301/302 answers after the SAML POST included.
C28_AuthenticateTerminates ==
    (pc \in RequestSteps \cup {"mfa"}) ~> (pc \in {"returned", "raised"})

\* C25: for a well-formed stored file (a JSON object with the four keys),
\* load() followed by save() to the same path leaves cookies, user_email,
\* user_id and the distinguished field of the file as they were, and loading
\* the saved file again yields a session equal to the first one.
C25_LoadSaveRoundTrips ==
    (stored # <<>> /\ stored[1] \in WellFormedFiles) =>
        /\ storePc \notin {"raised", "none"}
        /\ storePc \in {"saved", "reloaded"} =>
              \A k \in {"cookies", "user_email", "user_id", "glide_session_store"} :
                  Field(file[1], k, Absent) = stored[1][k]
        /\ storePc = "reloaded" => reloaded # <<>> /\ reloaded = loaded

C25_Witness ==
    /\ storePc = "reloaded"
    /\ stored[1] \in WellFormedFiles
    /\ stored[1].user_email = "e1"
    /\ stored[1].user_id = "u1"
    /\ stored[1].cookies[JSESSIONID] = "c1"
    /\ stored[1].glide_session_store = "g0"

\* C30 as stated: over any sequence of FlexNetClient operations, failed
\* authentications and repeated calls included, at most one httpx client is
\* open at any time, after close() every client that was created is closed,
\* and between two close() calls at most one authentication succeeds.
C30_OneClientAllClosed ==
    /\ Cardinality(flexOpen) <= 1
    /\ flexLast.op = "close" => flexOpen = {}
    /\ flexAuths <= 1

\* the places in the list of the releases that a module holds
Places(m) == {m.releases[k].sys_id : k \in 1..Len(m.releases)}

\* C26: _group_releases puts every release of the list into exactly one
\* module, the one named by parse_module_name of its short_description;
\* the modules are in the order in which their first releases come in the
\* list; inside a module the releases are in non-decreasing order of
\* (target_ga_date or date_released), inside "BA HR Tax Update" in
\* non-decreasing order of the update number; an empty list gives no module.
C26_GroupedOrderedSorted ==
    groupPc = "returned" =>
        /\ releases = <<>> => modules = <<>>
        /\ \A i \in 1..Len(releases) :
              \E m \in 1..Len(modules) :
                  /\ modules[m].name = parse_module_name(releases[i].short_description)
                  /\ Cardinality({k \in 1..Len(modules[m].releases) :
                                     modules[m].releases[k] = releases[i]}) = 1
                  /\ \A n \in 1..Len(modules) : n # m => i \notin Places(modules[n])
        /\ \A m \in 1..Len(modules) :
              /\ Places(modules[m]) # {}
              /\ Places(modules[m]) \subseteq 1..Len(releases)
              /\ Len(modules[m].releases) = Cardinality(Places(modules[m]))
              /\ \A n \in 1..Len(modules) :
                    m < n => \E i \in Places(modules[m]) :
                                 \A j \in Places(modules[n]) : i < j
              /\ \A k \in 1..(Len(modules[m].releases) - 1) :
                    LET a == modules[m].releases[k]
                        b == modules[m].releases[k + 1]
                    IN  IF modules[m].name = "BA HR Tax Update"
                        THEN UpdateNumber(a.short_description)
                                <= UpdateNumber(b.short_description)
                        ELSE (IF a.target_ga_date # 0 THEN a.target_ga_date
                              ELSE a.date_released)
                             <= (IF b.target_ga_date # 0 THEN b.target_ga_date
                                 ELSE b.date_released)

C26_Witness ==
    /\ groupPc = "returned"
    /\ Len(releases) = 3
    /\ Len(modules) = 2
    /\ modules[1].name = "BA HR Tax Update"
    /\ Len(modules[1].releases) = 2
    /\ modules[1].releases[1].sys_id = 3
    /\ modules[2].name = "BA FIN AID"

\* C27 as stated: when await-change calls are chained through the returned
\* timestamp, a page whose updated-at was set after the first call's starting
\* timestamp is listed by some call of the chain: it is never left behind
\* the --since of the next call without having been listed.
C27_NoChangeMissed ==
    (started # <<>> /\ awaitPc = "idle") =>
        \A p \in PageNames :
            (updated_at[p] > started[1] /\ updated_at[p] < timestamp) =>
                p \in reported

\* C23: a consumer request carries the cookies of a session that this
\* invocation either loaded from the store and saw confirmed by the validator
\* (its probe answered x-is-logged-in: true) or got from a successful
\* handshake of its own; a consumer command whose stored session is absent
\* or is not confirmed exits with status 1 and sends no consumer request.
C23_RequestsOnlyWithCheckedSession ==
    /\ \A i \in 1..Len(cli.requests) :
          IF cli.cmd \in ConsumerCommands
          THEN /\ cli.checked # <<>>
               /\ <<cli.checked[1].session>> = Load(file)
               /\ cli.checked[1].probed
               /\ cli.checked[1].header = "true"
               /\ cli.requests[i].cookies = cli.checked[1].session.cookies
          ELSE /\ clientSession # <<>>
               /\ cli.requests[i].cookies = clientSession[1].cookies
               /\ IF call.reused
                  THEN /\ clientSession = Load(file)
                       /\ call.probes = 1
                       /\ call.header = "true"
                  ELSE /\ call.started
                       /\ clientSession[1].glide_session_store # ""
                       /\ file = <<SaveData(clientSession[1])>>
    /\ (/\ cli.cmd \in ConsumerCommands
        /\ cli.stage = "exited"
        /\ \/ Load(file) = <<>>
           \/ cli.checked # <<>> /\ cli.checked[1].header # "true") =>
          /\ cli.exit = 1
          /\ cli.requests = <<>>

C23_Witness ==
    /\ cli.cmd = "find"
    /\ cli.stage = "exited"
    /\ Len(cli.requests) = 1
    /\ cli.requests[1].cookies = OldSession.cookies

\* C24: one invocation of login runs at most one handshake and shows the
\* MFA prompt at most once; when the handshake raised AuthenticationError
\* login has printed the error and exits with a non-zero status; after a
\* failed challenge/answer call it never prints success or exits with 0.
C24_LoginOnceFailsLoudly ==
    cli.cmd = "login" =>
        /\ client <= 1
        /\ Cardinality(Sent("target_get")) <= 1
        /\ mfaCalls <= 1
        /\ cli.prompts <= 1
        /\ (cli.stage = "exited" /\ cli.raised = "AuthenticationError") =>
              /\ cli.exit # 0
              /\ cli.reason # ""
              /\ cli.out = "Authentication failed: " \o cli.reason
        /\ (cli.stage = "exited" /\ cli.mfa = "failed") =>
              /\ cli.exit # 0
              /\ cli.out # "Authentication successful!"

C24_Witness ==
    /\ cli.cmd = "login"
    /\ cli.stage = "exited"
    /\ cli.mfa = "failed"
    /\ cli.prompts = 1
    /\ cli.raised = "AuthenticationError"
    /\ cli.reason = "MFA failed"
    /\ cli.exit = 1

\* C9: every request of a handshake goes through the one client the
\* authenticator created, which stays open until the handshake is over, and
\* the jar is never cleared or replaced on the way: it always holds exactly
\* what the answers received so far have set.
C9_OneClientOneJar ==
    /\ \A i \in 1..Len(reqs) : reqs[i].client = client
    /\ pc # "idle" => client \in openClients
    /\ jar = Replay(Len(reqs))

C9_Witness ==
    /\ pc = "returned"
    /\ Len(reqs) >= 9
    /\ reqs[1].setc = <<<<JSESSIONID, SP>>, "j1">>
    /\ jar[<<JSESSIONID, SP>>] = "j1"
    /\ jar[<<JSESSIONID, IDP>>] = "k1"

(***************************************************************************)
(* Client entry point.                                                     *)
(***************************************************************************)
\* C13: validate_session sends at most one GET, none for a session that is
\* not authenticated, to the target page with redirect following disabled;
\* it returns True exactly when that request was sent and its answer carries
\* x-is-logged-in with the value "true" (an absent header, "false" and any
\* other value give False), and it does not raise.
C13_ValidatorOneProbeExactHeader ==
    /\ Len(call.probe) <= 1
    /\ call.probes = Len(call.probe)
    /\ \A i \in 1..Len(call.probe) :
          /\ call.probe[i].url = Url(SP, "/customer_center?id=customer_center_home")
          /\ call.probe[i].follow_redirects = FALSE
          /\ call.probe[i].cookies = call.saved[1].cookies
    /\ call.saved # <<>> =>
          /\ call.exc = ""
          /\ call.valid # <<>>
          /\ call.saved[1].glide_session_store = "" => call.probe = <<>>
          /\ call.valid[1] <=> (Len(call.probe) = 1 /\ call.header = "true")
    /\ call.reused => call.valid = <<TRUE>>

C13_Witness ==
    /\ call.valid = <<FALSE>>
    /\ Len(call.probe) = 1
    /\ call.header = "True"
    /\ call.started

\* C18: the client created for a handshake is open while the handshake runs
\* and closed when EllucianClient.authenticate is left, after success and
\* after any exception (of a request, of the MFA callback, of authenticate
\* itself): no client is open between calls; the session handed out stays
\* in the client's hands after the close; every handshake starts with a
\* client of its own whose jar is empty.
C18_ClientClosedOnEveryExit ==
    /\ pc = "idle" => openClients = {}
    /\ pc # "idle" => openClients = {client}
    /\ pc = "target_get" => (jar = EmptyJar /\ domOrder = <<>> /\ reqs = <<>>)
    /\ \A i \in 1..Len(reqs) : reqs[i].client = client
    /\ (pc = "idle" /\ clientSession # <<>>) =>
          clientSession[1].glide_session_store # ""

C18_Witness ==
    /\ client = 2
    /\ pc = "raised"
    /\ error.type = "CallbackError"
    /\ openClients = {2}
    /\ clientSession # <<>>

\* C10: authenticate(force=False) starts a handshake only when no saved
\* session loads or the validator returns False for it; when the saved
\* session validates, no handshake request is sent, the MFA callback is not
\* invoked and the saved session becomes the client's session; with
\* force=True the saved session is neither loaded nor probed and the
\* handshake always runs.
C10_HandshakeOnlyWhenNeeded ==
    LET validates == call.probes = 1 /\ call.header = "true"
    IN  /\ pc # "idle" => call.started
        /\ (call.started /\ ~call.force) => (call.saved = <<>> \/ ~validates)
        /\ (~call.force /\ call.saved # <<>> /\ validates) =>
              /\ call.reused /\ ~call.started
              /\ pc = "idle"
              /\ reqs = <<>> /\ mfaCalls = 0
              /\ clientSession = call.saved
        /\ call.force =>
              /\ call.saved = <<>> /\ call.probes = 0
              /\ call.started /\ ~call.reused

C10_Witness ==
    /\ call.reused
    /\ clientSession = <<OldSession>>
    /\ client = 0

====
